---- MODULE Spec2Model ----
(***************************************************************************)
(* Model of IniHandler (iniHandler.h / iniHandler.cpp, the std::vector     *)
(* based implementation).  A handler wraps one file path.  Every public    *)
(* operation re-parses the whole file into file.sections (readAll) and     *)
(* every write serialises file.sections back over the file.                *)
(*                                                                         *)
(* Strings are sequences of one-character strings, so that parsing and     *)
(* serialising really split and join bytes.                                *)
(***************************************************************************)
EXTENDS Integers, Sequences, FiniteSets, TLC

VARIABLES
    exists,     \* a file is present at file.path
    readable,   \* std::ifstream in(file.path) can open it
    writable,   \* std::ofstream out(file.path) can open (and create) it
    content,    \* the bytes of the file
    sections,   \* the member file.sections
    pc,         \* "new" before the constructor ran, "ready" after
    last,       \* the last public call: arguments, locals and result
    fresh,      \* no file existed when the constructor ran
    wrote,      \* some writeSection / writeValue has returned true
    ops         \* number of public calls made so far

vars == <<exists, readable, writable, content, sections, pc, last, fresh, wrote, ops>>

\* Number of public calls explored after construction.
MaxOps == 2

----------------------------------------------------------------------------
(* Strings and the structures of iniHandler.h *)

a == <<"a">>
b == <<"b">>
EQ == <<"=">>
LB == <<"[">>
RB == <<"]">>
NL == <<"\n">>

iniEntry(k, v) == [name |-> k, value |-> v]
iniSection(n, es) == [name |-> n, entries |-> es]

----------------------------------------------------------------------------
(* readAll: std::getline loop and the per-line parse *)

\* std::getline(in, line) repeated until it fails: every '\n' ends a line,
\* and a last line without '\n' is delivered only when it is not empty.
RECURSIVE getline(_, _, _, _)
getline(s, i, cur, acc) ==
    IF i > Len(s)
    THEN IF cur = <<>> THEN acc ELSE Append(acc, cur)
    ELSE IF s[i] = "\n"
         THEN getline(s, i + 1, <<>>, Append(acc, cur))
         ELSE getline(s, i + 1, Append(cur, s[i]), acc)

\* line.find('='): position of the first '=', 0 for npos.
find(line) ==
    IF \E i \in 1..Len(line) : line[i] = "="
    THEN CHOOSE i \in 1..Len(line) :
            line[i] = "=" /\ \A j \in 1..(i - 1) : line[j] # "="
    ELSE 0

\* line.front() == '[' && line.back() == ']'
isHeader(line) == line # <<>> /\ line[1] = "[" /\ line[Len(line)] = "]"

\* parseLine splitting key=value at the last '=' instead of the first.
parseLineLast(secs, line) ==
    IF line = <<>> THEN secs
    ELSE IF isHeader(line)
    THEN Append(secs, iniSection(SubSeq(line, 2, Len(line) - 1), <<>>))
    ELSE IF \A i \in 1..Len(line) : line[i] # "=" THEN secs
    ELSE IF secs = <<>> THEN secs
    ELSE LET pos == CHOOSE i \in 1..Len(line) :
                        line[i] = "=" /\ \A j \in (i + 1)..Len(line) : line[j] # "="
             key == SubSeq(line, 1, pos - 1)
             value == SubSeq(line, pos + 1, Len(line))
             n == Len(secs)
         IN  [secs EXCEPT ![n].entries = Append(@, iniEntry(key, value))]

\* parseLine keeping a key=value line met before any header, in a section
\* without a name.
parseLineOrphan(secs, line) ==
    IF line = <<>> THEN secs
    ELSE IF isHeader(line)
    THEN Append(secs, iniSection(SubSeq(line, 2, Len(line) - 1), <<>>))
    ELSE LET pos == find(line)
             cur == IF secs = <<>> THEN <<iniSection(<<>>, <<>>)>> ELSE secs
         IN  IF pos = 0 THEN secs
             ELSE [cur EXCEPT ![Len(cur)].entries =
                      Append(@, iniEntry(SubSeq(line, 1, pos - 1),
                                         SubSeq(line, pos + 1, Len(line))))]

\* The body of the while loop of readAll for one line; currentSection is
\* null exactly while no section has been pushed.
parseLine(secs, line) ==
    IF line = <<>> THEN secs
    ELSE IF isHeader(line)
    THEN Append(secs, iniSection(SubSeq(line, 2, Len(line) - 1), <<>>))
    ELSE LET pos == find(line) IN
         IF pos = 0 \/ secs = <<>> THEN secs
         ELSE LET key == SubSeq(line, 1, pos - 1)
                  value == SubSeq(line, pos + 1, Len(line))
                  n == Len(secs)
              IN  [secs EXCEPT ![n].entries = Append(@, iniEntry(key, value))]

RECURSIVE parseLines(_, _, _)
parseLines(lines, i, secs) ==
    IF i > Len(lines) THEN secs
    ELSE parseLines(lines, i + 1, parseLine(secs, lines[i]))

\* file.sections after a readAll that could open the file.
readAll(bytes) == parseLines(getline(bytes, 1, <<>>, <<>>), 1, <<>>)

\* readAll whose result is not looked at.
canReadIgnored == TRUE

\* in.is_open() of readAll
canRead == exists /\ readable

----------------------------------------------------------------------------
(* Searching loops (for ... if (name == x) { ...; break; }) *)

RECURSIVE findSectionFrom(_, _, _)
findSectionFrom(secs, name, i) ==
    IF i > Len(secs) THEN 0
    ELSE IF secs[i].name = name THEN i
    ELSE findSectionFrom(secs, name, i + 1)

findSection(secs, name) == findSectionFrom(secs, name, 1)

RECURSIVE findEntryFrom(_, _, _)
findEntryFrom(entries, key, i) ==
    IF i > Len(entries) THEN 0
    ELSE IF entries[i].name = key THEN i
    ELSE findEntryFrom(entries, key, i + 1)

findEntry(entries, key) == findEntryFrom(entries, key, 1)

----------------------------------------------------------------------------
(* Serialisation: the output loop shared by writeSection and writeValue *)

RECURSIVE writeEntries(_, _)
writeEntries(entries, i) ==
    IF i > Len(entries) THEN <<>>
    ELSE entries[i].name \o EQ \o entries[i].value \o NL \o writeEntries(entries, i + 1)

RECURSIVE serializeFrom(_, _)
serializeFrom(secs, i) ==
    IF i > Len(secs) THEN <<>>
    ELSE LB \o secs[i].name \o RB \o NL
         \o writeEntries(secs[i].entries, 1) \o NL
         \o serializeFrom(secs, i + 1)

serialize(secs) == serializeFrom(secs, 1)

----------------------------------------------------------------------------
(* The in-memory updates of the two writers *)

\* writeSectionUpdate putting a new section in front of the others.
writeSectionFront(secs, name, entries) ==
    IF findSection(secs, name) # 0
    THEN [secs EXCEPT ![findSection(secs, name)].entries = entries]
    ELSE <<iniSection(name, entries)>> \o secs

\* writeSection: replace the entries of the first section of that name, or
\* push the section at the back.
writeSectionUpdate(secs, name, entries) ==
    LET i == findSection(secs, name) IN
    IF i # 0 THEN [secs EXCEPT ![i].entries = entries]
    ELSE Append(secs, iniSection(name, entries))

\* targetSections pushing a new section without looking for an old one.
targetSectionsPushed(secs, name) == Append(secs, iniSection(name, <<>>))

\* writeValue / writeEntry: targetSection is the first section of that name,
\* or a new empty one pushed at the back.
targetSections(secs, name) ==
    IF findSection(secs, name) # 0 THEN secs
    ELSE Append(secs, iniSection(name, <<>>))

\* writeValueUpdate pushing the entry without looking for the key.
writeValueAppend(secs, name, key, value) ==
    LET ts == targetSections(secs, name)
        t == findSection(ts, name)
    IN  [ts EXCEPT ![t].entries = Append(@, iniEntry(key, value))]

\* writeValue / writeEntry: overwrite the value of the first entry with that
\* key in the target section, or push the entry at its back.
writeValueUpdate(secs, name, key, value) ==
    LET ts == targetSections(secs, name)
        t == findSection(ts, name)
        k == findEntry(ts[t].entries, key)
    IN  IF k # 0 THEN [ts EXCEPT ![t].entries[k].value = value]
        ELSE [ts EXCEPT ![t].entries = Append(@, iniEntry(key, value))]

----------------------------------------------------------------------------
(* Results of the readers, as functions of file.sections *)

\* readSectionResult counting a section without entries as found.
readSectionPresent(secs, name) == findSection(secs, name) # 0

\* readSection: the first section of that name exists and has entries.
readSectionResult(secs, name) ==
    LET i == findSection(secs, name) IN
    IF i # 0 THEN secs[i].entries # <<>> ELSE FALSE

\* readValueResult without the break: it goes on to later sections of that
\* name when the first one lacks the key.
readValueNoBreak(secs, name, key) ==
    LET hits == {i \in 1..Len(secs) :
                    secs[i].name = name /\ findEntry(secs[i].entries, key) # 0}
    IN  IF hits = {} THEN <<>>
        ELSE LET i == CHOOSE x \in hits : \A y \in hits : x <= y
             IN  secs[i].entries[findEntry(secs[i].entries, key)].value

\* readValue / readEntry: value of the first entry with that key in the
\* first section of that name, "" otherwise.
readValueResult(secs, name, key) ==
    LET i == findSection(secs, name) IN
    IF i = 0 THEN <<>>
    ELSE LET k == findEntry(secs[i].entries, key) IN
         IF k = 0 THEN <<>> ELSE secs[i].entries[k].value

\* emptyResult looking only at whether the file exists.
emptyExistsOnly(ex, rd, bytes) == ~ex

\* empty(): true when the file does not exist; otherwise tellg() == 0 on a
\* stream opened at the end, and tellg() is -1 when the open failed.
emptyResult(ex, rd, bytes) ==
    IF ~ex THEN TRUE
    ELSE IF ~rd THEN FALSE
    ELSE Len(bytes) = 0

----------------------------------------------------------------------------
(* Inputs *)

\* Arguments of writeValue: <<section, key, value>>.
WriteValueArgs ==
    { <<a, a, a>>, <<a, a, b>>, <<a, b, a>>, <<a, b, b>>,
      <<b, a, a>>, <<b, a, b>>, <<b, b, a>>, <<b, b, b>>,
      <<a, LB, a>>, <<a, a, RB>>, <<a, a, EQ>>,
      <<a, EQ, a>>, <<a, LB, RB>>, <<a, a, NL>>, <<NL, a, a>> }

\* Arguments of writeSection: <<section, entries>>.
WriteSectionArgs ==
    { <<a, <<>>>>, <<b, <<>>>>, <<NL, <<>>>>,
      <<a, <<iniEntry(a, a), iniEntry(b, b)>>>>,
      <<b, <<iniEntry(a, a), iniEntry(b, b)>>>>,
      <<a, <<iniEntry(b, a), iniEntry(a, b)>>>>,
      <<b, <<iniEntry(a, EQ), iniEntry(a, b)>>>>,
      <<a, <<iniEntry(EQ, a)>>>>,
      <<a, <<iniEntry(LB, RB)>>>>,
      <<b, <<iniEntry(a, NL)>>>> }

\* Arguments of readValue: <<section, key>>.
ReadValueArgs ==
    { <<a, a>>, <<a, b>>, <<b, a>>, <<b, b>>,
      <<a, EQ>>, <<a, LB>>, <<a, <<>>>>, <<NL, a>> }

\* Arguments of readSection.
ReadSectionArgs == {a, b, NL}

\* Files found at the path when the handler is constructed: written by this
\* class, edited by hand, or neither.
InitFiles ==
    { <<>>,
      <<"[","a","]","\n","a","=","a","\n","\n">>,
      <<"[","a","]","\n","a","=","a","\n","b","=","b","\n","\n",
        "[","b","]","\n","b","=","a","\n","\n">>,
      <<"[","b","]","\n","\n","[","a","]","\n","a","=","b","\n","\n">>,
      <<"a","=","a","\n","[","a","]","\n","b","\n","a","=","b">>,
      <<"[","a","]","\n","a","=","a","\n","a","=","b","\n">>,
      <<"[","a","]","\n","a","=","a","\n","[","a","]","\n","b","=","b","\n">>,
      <<"[","a","]","\n","[","=","a","\n","b","=","a","\n">>,
      <<"[","b","]","\n","a","]","\n","\n","=","b","\n","[","=","]","\n","a","=","=","\n">>,
      <<"a","\n","b","=","b","\n","[","a","\n">> }

NoCall == [op |-> "none", section |-> <<>>, key |-> <<>>, value |-> <<>>,
           entries |-> <<>>, ret |-> FALSE, str |-> <<>>,
           found |-> FALSE, kfound |-> FALSE, repeat |-> FALSE]

----------------------------------------------------------------------------
(* State machine *)

Init ==
    /\ exists \in BOOLEAN
    /\ content \in (IF exists THEN InitFiles ELSE {<<>>})
    /\ readable \in (IF exists THEN BOOLEAN ELSE {TRUE})
    /\ writable \in BOOLEAN
    /\ sections = <<>>
    /\ pc = "new"
    /\ last = NoCall
    /\ fresh = FALSE
    /\ wrote = FALSE
    /\ ops = 0

\* explicit IniHandler(const std::filesystem::path&)
IniHandler ==
    /\ pc = "new"
    /\ pc' = "ready"
    /\ fresh' = ~exists
    /\ IF ~exists /\ writable
       THEN exists' = TRUE /\ content' = <<>>
       ELSE UNCHANGED <<exists, content>>
    /\ UNCHANGED <<readable, writable, sections, last, wrote, ops>>

\* bool writeSection(const iniSection& section)
writeSection(name, entries) ==
    /\ pc = "ready" /\ ops < MaxOps
    /\ ops' = ops + 1
    /\ LET parsed == readAll(content)
           upd == writeSectionUpdate(parsed, name, entries)
           ok == canRead /\ writable
       IN  /\ sections' = IF canRead THEN upd ELSE sections
           /\ content' = IF ok THEN serialize(upd) ELSE content
           /\ wrote' = (wrote \/ ok)
           /\ last' = [NoCall EXCEPT !.op = "writeSection", !.section = name,
                          !.entries = entries, !.ret = ok,
                          !.found = canRead /\ findSection(parsed, name) # 0]
    /\ UNCHANGED <<exists, readable, writable, pc, fresh>>

\* bool writeValue(section, key, value)  (writeEntry / writeEntry_str)
writeValue(name, key, value) ==
    /\ pc = "ready" /\ ops < MaxOps
    /\ ops' = ops + 1
    /\ LET parsed == readAll(content)
           upd == writeValueUpdate(parsed, name, key, value)
           ok == canRead /\ writable
           t == findSection(parsed, name)
       IN  /\ sections' = IF canRead THEN upd ELSE sections
           /\ content' = IF ok THEN serialize(upd) ELSE content
           /\ wrote' = (wrote \/ ok)
           /\ last' = [NoCall EXCEPT !.op = "writeValue", !.section = name,
                          !.key = key, !.value = value, !.ret = ok,
                          !.found = canRead /\ t # 0,
                          !.kfound = canRead /\ t # 0
                                       /\ findEntry(parsed[t].entries, key) # 0,
                          !.repeat = /\ last.op = "writeValue"
                                     /\ last.section = name
                                     /\ last.key = key
                                     /\ last.value = value]
    /\ UNCHANGED <<exists, readable, writable, pc, fresh>>

\* bool readSection(const iniSection& section)
readSection(name) ==
    /\ pc = "ready" /\ ops < MaxOps
    /\ ops' = ops + 1
    /\ sections' = IF canRead THEN readAll(content) ELSE sections
    /\ last' = [NoCall EXCEPT !.op = "readSection", !.section = name,
                   !.ret = canRead /\ readSectionResult(readAll(content), name)]
    /\ UNCHANGED <<exists, readable, writable, content, pc, fresh, wrote>>

\* std::string readValue(section, key)  (readEntry / readEntry_str)
readValue(name, key) ==
    /\ pc = "ready" /\ ops < MaxOps
    /\ ops' = ops + 1
    /\ sections' = IF canRead THEN readAll(content) ELSE sections
    /\ last' = [NoCall EXCEPT !.op = "readValue", !.section = name, !.key = key,
                   !.ret = canRead,
                   !.str = IF canRead
                           THEN readValueResult(readAll(content), name, key)
                           ELSE <<>>]
    /\ UNCHANGED <<exists, readable, writable, content, pc, fresh, wrote>>

\* bool empty() const
empty ==
    /\ pc = "ready" /\ ops < MaxOps
    /\ ops' = ops + 1
    /\ last' = [NoCall EXCEPT !.op = "empty",
                   !.ret = emptyResult(exists, readable, content)]
    /\ UNCHANGED <<exists, readable, writable, content, sections, pc, fresh, wrote>>

WriteSectionCall == \E x \in WriteSectionArgs : writeSection(x[1], x[2])
WriteValueCall == \E x \in WriteValueArgs : writeValue(x[1], x[2], x[3])
ReadSectionCall == \E n \in ReadSectionArgs : readSection(n)
ReadValueCall == \E x \in ReadValueArgs : readValue(x[1], x[2])

Next ==
    \/ IniHandler
    \/ WriteSectionCall
    \/ WriteValueCall
    \/ ReadSectionCall
    \/ ReadValueCall
    \/ empty

Spec == Init /\ [][Next]_vars

----------------------------------------------------------------------------
(* Vocabulary of the properties, stated without the code's loops *)

Pos(seq, P(_)) ==
    IF \E i \in 1..Len(seq) : P(seq[i])
    THEN CHOOSE i \in 1..Len(seq) : P(seq[i]) /\ \A j \in 1..(i - 1) : ~P(seq[j])
    ELSE 0

\* Index of the first section named n, 0 when there is none.
FirstSec(secs, n) == LET Named(x) == x.name = n IN Pos(secs, Named)

\* Index of the first entry with key k, 0 when there is none.
FirstKey(entries, k) == LET Keyed(x) == x.name = k IN Pos(entries, Keyed)

\* Number of entries with key k.
CountKey(entries, k) == Cardinality({i \in 1..Len(entries) : entries[i].name = k})

\* Entries of the first section named n (none when the section is missing).
EntriesOf(secs, n) ==
    IF FirstSec(secs, n) = 0 THEN <<>> ELSE secs[FirstSec(secs, n)].entries

Has(str, c) == \E i \in 1..Len(str) : str[i] = c

\* A section name the format can carry: it holds no line break.
NameFits(n) == ~Has(n, "\n")

\* A key and value the format can carry: no line break in either, no '=' in
\* the key, and the line key=value does not both start with '[' and end
\* with ']'.
EntryFits(k, v) ==
    /\ ~Has(k, "\n") /\ ~Has(v, "\n") /\ ~Has(k, "=")
    /\ ~(k # <<>> /\ k[1] = "[" /\ v # <<>> /\ v[Len(v)] = "]")

EntriesFit(es) == \A i \in 1..Len(es) : EntryFits(es[i].name, es[i].value)

\* The file as the next call will parse it.
Parsed == readAll(content)

----------------------------------------------------------------------------
(* C1 *)

\* C1 as stated: after writeValue(S, K, V) has returned true, readValue(S, K)
\* returns V, for every S, K and V.
C1_WriteThenRead_AnyString ==
    (last.op = "writeValue" /\ last.ret)
        => readValueResult(Parsed, last.section, last.key) = last.value

\* C1 amended: after writeValue(S, K, V) has returned true with a name, key
\* and value the format can carry, readValue(S, K) returns V, whether or not
\* the section or the key existed before.
C1_WriteThenRead ==
    (/\ last.op = "writeValue" /\ last.ret
     /\ NameFits(last.section) /\ EntryFits(last.key, last.value))
        => readValueResult(Parsed, last.section, last.key) = last.value

\* A successful writeValue that had to create the section, read back.
C1_Witness ==
    /\ last.op = "writeValue" /\ last.ret /\ ~last.found
    /\ NameFits(last.section) /\ EntryFits(last.key, last.value)
    /\ Len(Parsed) >= 2
    /\ readValueResult(Parsed, last.section, last.key) = last.value

----------------------------------------------------------------------------
(* C2 *)

\* C2 as stated: after writeSection(S, E) has returned true, the first
\* section named S of the parsed file holds exactly E, for every S and E.
C2_RoundTrip_AnyString ==
    (last.op = "writeSection" /\ last.ret)
        => /\ FirstSec(Parsed, last.section) # 0
           /\ EntriesOf(Parsed, last.section) = last.entries

\* C2 amended: after writeSection(S, E) has returned true with a name and
\* entries the format can carry, the first section named S of the parsed
\* file holds exactly E: same keys, same values, same order.
C2_RoundTrip ==
    (/\ last.op = "writeSection" /\ last.ret
     /\ NameFits(last.section) /\ EntriesFit(last.entries))
        => /\ FirstSec(Parsed, last.section) # 0
           /\ EntriesOf(Parsed, last.section) = last.entries

\* Two entries written over an existing section and read back in order.
C2_Witness ==
    /\ last.op = "writeSection" /\ last.ret /\ last.found
    /\ Len(last.entries) = 2 /\ last.entries[1] # last.entries[2]
    /\ EntriesFit(last.entries)
    /\ EntriesOf(Parsed, last.section) = last.entries

----------------------------------------------------------------------------
(* C3 *)

\* The file as it will be parsed after the step.
ParsedNext == readAll(content')

\* The step is a writeValue call that returned true.
WroteValue == last'.op = "writeValue" /\ last'.ret /\ ops' = ops + 1

\* The step is a writeSection call that returned true.
WroteSection == last'.op = "writeSection" /\ last'.ret /\ ops' = ops + 1

\* After the step the first section S holds exactly one entry with key K,
\* and its value is V.
OneEntryNext(S, K, V) ==
    /\ CountKey(EntriesOf(ParsedNext, S), K) = 1
    /\ readValueResult(ParsedNext, S, K) = V

\* C3 as stated: whenever section S holds an entry with key K, a successful
\* writeValue(S, K, new) leaves exactly one entry with key K in S, with
\* value new.
C3_UpdateInPlace_AnyFile ==
    [][(WroteValue /\ CountKey(EntriesOf(Parsed, last'.section), last'.key) >= 1)
          => OneEntryNext(last'.section, last'.key, last'.value)]_vars

\* C3 amended: whenever the first section S holds exactly one entry with key
\* K, a successful writeValue(S, K, new), with a value the format can carry
\* next to K, adds no entry: the section still holds exactly one entry with
\* key K, and its value is new.
C3_UpdateInPlace ==
    [][(/\ WroteValue
        /\ CountKey(EntriesOf(Parsed, last'.section), last'.key) = 1
        /\ EntryFits(last'.key, last'.value))
          => OneEntryNext(last'.section, last'.key, last'.value)]_vars

\* A successful writeValue that found its key, in a section that holds other
\* entries too, and left one entry with that key.
C3_Witness ==
    /\ last.op = "writeValue" /\ last.ret /\ last.kfound
    /\ EntryFits(last.key, last.value)
    /\ Len(EntriesOf(Parsed, last.section)) >= 2
    /\ CountKey(EntriesOf(Parsed, last.section), last.key) = 1
    /\ readValueResult(Parsed, last.section, last.key) = last.value

----------------------------------------------------------------------------
(* C4 *)

\* The step is a writeValue call that repeats the arguments of the call
\* before it.
RepeatedWriteValue ==
    /\ last.op = "writeValue" /\ last'.op = "writeValue" /\ ops' = ops + 1
    /\ last'.section = last.section /\ last'.key = last.key
    /\ last'.value = last.value

\* C4 as stated: a second writeValue(S, K, V) with the same arguments leaves
\* the file byte-identical, for every S, K and V.
C4_Idempotent_AnyString ==
    [][RepeatedWriteValue => content' = content]_vars

\* C4 amended: a second writeValue(S, K, V) with the same arguments, made of
\* a name, key and value the format can carry, leaves the file
\* byte-identical to what the first call left.
C4_Idempotent ==
    [][(/\ RepeatedWriteValue
        /\ NameFits(last'.section) /\ EntryFits(last'.key, last'.value))
          => content' = content]_vars

\* The second of two identical successful writeValue calls has returned.
C4_Witness ==
    /\ last.op = "writeValue" /\ last.repeat /\ last.ret
    /\ NameFits(last.section) /\ EntryFits(last.key, last.value)
    /\ content = serialize(sections)

----------------------------------------------------------------------------
(* C5 *)

\* Q is P with one section changed in place (the first one named S), or
\* with one section named S added at the back.
SectionsKept(P, Q, S) ==
    LET i == FirstSec(P, S) IN
    IF i # 0
    THEN /\ Len(Q) = Len(P)
         /\ Q[i].name = S
         /\ \A j \in 1..Len(P) : j # i => Q[j] = P[j]
    ELSE /\ Len(Q) = Len(P) + 1
         /\ Q[Len(Q)].name = S
         /\ \A j \in 1..Len(P) : Q[j] = P[j]

\* F is E with the value of its first entry with key K changed, or with one
\* entry with key K added at the back.
EntriesKept(E, F, K) ==
    LET k == FirstKey(E, K) IN
    IF k # 0
    THEN /\ Len(F) = Len(E)
         /\ F[k].name = K
         /\ \A m \in 1..Len(E) : m # k => F[m] = E[m]
    ELSE /\ Len(F) = Len(E) + 1
         /\ F[Len(F)].name = K
         /\ \A m \in 1..Len(E) : F[m] = E[m]

\* What C5 asks of a step.
OrderKept ==
    /\ (WroteSection \/ WroteValue)
          => SectionsKept(Parsed, ParsedNext, last'.section)
    /\ WroteValue
          => EntriesKept(EntriesOf(Parsed, last'.section),
                         EntriesOf(ParsedNext, last'.section), last'.key)

\* C5 as stated: every successful writeSection or writeValue keeps the other
\* sections, their entries and their order, puts a new section last, and
\* writeValue keeps the other entries of its section in order.
C5_OrderPreserved_AnyString == [][OrderKept]_vars

\* C5 amended: the same, for calls whose name, keys and values the format
\* can carry.
C5_OrderPreserved ==
    [][(/\ NameFits(last'.section)
        /\ EntryFits(last'.key, last'.value)
        /\ EntriesFit(last'.entries))
          => OrderKept]_vars

\* A successful writeSection that created its section behind an existing one
\* that holds two entries.
C5_Witness ==
    /\ last.op = "writeSection" /\ last.ret /\ ~last.found
    /\ NameFits(last.section) /\ EntriesFit(last.entries)
    /\ Len(Parsed) >= 2
    /\ Len(Parsed[1].entries) >= 2
    /\ Parsed[Len(Parsed)].name = last.section

----------------------------------------------------------------------------
(* C6 *)

\* Value of the first entry with key K in the first section named S of the
\* file, "" when the file cannot be read or holds no such section or entry.
Lookup(S, K) ==
    IF ~(exists /\ readable) THEN <<>>
    ELSE IF FirstSec(Parsed, S) = 0 THEN <<>>
    ELSE IF FirstKey(EntriesOf(Parsed, S), K) = 0 THEN <<>>
    ELSE EntriesOf(Parsed, S)[FirstKey(EntriesOf(Parsed, S), K)].value

\* C6: readValue(section, key) returns the value of the first entry with
\* that key in the first section of that name, the empty string when there
\* is no such section or no such entry in it, and leaves the file as it was.
C6_ReadValue ==
    /\ [](last.op = "readValue" => last.str = Lookup(last.section, last.key))
    /\ [][(last'.op = "readValue" /\ ops' = ops + 1)
             => (content' = content /\ exists' = exists)]_vars

\* readValue returned the first of two values stored under its key.
C6_Witness ==
    /\ last.op = "readValue" /\ last.str # <<>>
    /\ CountKey(EntriesOf(Parsed, last.section), last.key) >= 2
    /\ \E i \in 1..Len(EntriesOf(Parsed, last.section)) :
          /\ EntriesOf(Parsed, last.section)[i].name = last.key
          /\ EntriesOf(Parsed, last.section)[i].value # last.str

----------------------------------------------------------------------------
(* C7 *)

\* C7 as stated: whenever the file can be opened for writing, writeSection
\* returns true.
C7_FailsOnlyOnWrite ==
    (last.op = "writeSection" /\ writable) => last.ret

\* C7 amended: writeSection returns true exactly when the file can be opened
\* for reading and for writing, and then the file holds all sections of
\* file.sections serialised in order; it returns false in no other
\* situation.
C7_FailsOnlyOnOpen ==
    last.op = "writeSection"
        => /\ last.ret <=> (exists /\ readable /\ writable)
           /\ last.ret => (content = serialize(sections) /\ content # <<>>)

\* writeSection returned false on a file that can be opened for writing but
\* not for reading.
C7_Witness ==
    last.op = "writeSection" /\ ~last.ret /\ writable /\ exists /\ ~readable

----------------------------------------------------------------------------
(* C8 *)

\* The file can be read and its first section named S holds an entry.
HasEntries(S) ==
    /\ exists /\ readable
    /\ \E i \in 1..Len(Parsed) :
          /\ Parsed[i].name = S
          /\ \A j \in 1..(i - 1) : Parsed[j].name # S
          /\ Len(Parsed[i].entries) >= 1

\* C8: readSection(name) returns true exactly when the file can be read and
\* the first section of that name exists and holds at least one entry; so
\* after a successful writeSection(name, []) it returns false.
C8_ReadSection ==
    /\ last.op = "readSection" => (last.ret <=> HasEntries(last.section))
    /\ (last.op = "writeSection" /\ last.ret /\ last.entries = <<>>)
          => ~readSectionResult(Parsed, last.section)

\* readSection returned false for a section that is present without entries.
C8_Witness ==
    /\ last.op = "readSection" /\ ~last.ret /\ exists /\ readable
    /\ FirstSec(Parsed, last.section) # 0

----------------------------------------------------------------------------
(* C9 *)

----------------------------------------------------------------------------
(* C10 *)

\* Lines of the file that readAll is said to skip: a line without '=' that
\* is no header, and a key=value line before the first header.
RECURSIVE dropSkipped(_, _, _)
dropSkipped(lines, i, seen) ==
    IF i > Len(lines) THEN <<>>
    ELSE LET l == lines[i]
             skipped == /\ l # <<>>
                        /\ ~isHeader(l)
                        /\ (~Has(l, "=") \/ ~seen)
         IN  (IF skipped THEN <<>> ELSE <<l>>)
                \o dropSkipped(lines, i + 1, seen \/ isHeader(l))

RECURSIVE joinLines(_, _)
joinLines(lines, i) ==
    IF i > Len(lines) THEN <<>> ELSE lines[i] \o NL \o joinLines(lines, i + 1)

FileLines == getline(content, 1, <<>>, <<>>)

\* The file without the lines readAll is said to skip.
Cleaned == joinLines(dropSkipped(FileLines, 1, FALSE), 1)

\* C10: a read of a file that can be opened succeeds, and leaves in
\* file.sections what parsing the file without its skipped lines gives.
C10_MalformedLines ==
    (last.op \in {"readValue", "readSection"} /\ exists /\ readable)
        => /\ sections = readAll(Cleaned)
           /\ last.op = "readValue" => last.ret

\* A read went over a file with skipped lines and still found entries.
C10_Witness ==
    /\ last.op = "readValue" /\ last.ret /\ last.str # <<>>
    /\ \E i \in 1..Len(FileLines) :
          FileLines[i] # <<>> /\ ~isHeader(FileLines[i]) /\ ~Has(FileLines[i], "=")
    /\ FileLines[1] # <<>> /\ ~isHeader(FileLines[1]) /\ Has(FileLines[1], "=")

====
